---- MODULE Spec2Model ----
(***************************************************************************)
(* State-machine model of fourcipp's FourCInput document (fourc_input.py)  *)
(* and of the legacy section dispatcher (legacy_io/__init__.py).           *)
(*                                                                         *)
(* A document is two insertion-ordered mappings (_sections and             *)
(* _legacy_sections), modelled as sequences of [k, v] pairs with unique    *)
(* keys.  Section names are strings; Chars gives the characters of a name  *)
(* so that startswith / endswith and string order can be computed.         *)
(***************************************************************************)
EXTENDS Integers, Sequences, FiniteSets, TLC

\* ------------------------------------------------------------------ bounds
MaxLines == 1      \* longest list of raw legacy lines handed to set
MaxIncludes == 2   \* longest INCLUDES list handed to set
MaxSplit == 2      \* longest list of names handed to split
MaxLegacyLines == 2  \* longest list of raw lines handed to the dispatcher

\* ------------------------------------------------- section catalog (names)
\* fourcipp/__init__.py is not part of the sources at hand: the catalog is
\* modelled from the specification (SectionCatalog): typed names, legacy
\* names, and their union.
SECTIONS == {"INCLUDES", "IO"}
LEGACY_SECTIONS ==
  {"PARTICLES", "FLUID DOMAIN", "NODE COORDS", "FLUID ELEMENTS",
   "DNODE-NODE TOPOLOGY", "FLUID KNOTVECTORS"}
ALL_SECTIONS == SECTIONS \cup LEGACY_SECTIONS

\* names a caller may pass: catalog names, a FUNCT-prefixed name, and two
\* names in no catalog ("io" is close to IO once upper-cased, "ZZ" is close
\* to nothing)
FunctNames == {"FUNCT1"}
UnknownNames == {"io", "ZZ"}
\* the legacy names the document operations are called with; the other
\* legacy names take part as catalog entries and in the dispatcher
DocLegacyNames == {"PARTICLES", "FLUID DOMAIN"}
Names == SECTIONS \cup DocLegacyNames \cup FunctNames \cup UnknownNames

Chars(n) ==
  CASE n = "INCLUDES" -> <<"I","N","C","L","U","D","E","S">>
    [] n = "IO" -> <<"I","O">>
    [] n = "PARTICLES" -> <<"P","A","R","T","I","C","L","E","S">>
    [] n = "FLUID DOMAIN" -> <<"F","L","U","I","D"," ","D","O","M","A","I","N">>
    [] n = "NODE COORDS" -> <<"N","O","D","E"," ","C","O","O","R","D","S">>
    [] n = "FLUID ELEMENTS" -> <<"F","L","U","I","D"," ","E","L","E","M","E","N","T","S">>
    [] n = "DNODE-NODE TOPOLOGY" -> <<"D","N","O","D","E","-","N","O","D","E"," ","T","O","P","O","L","O","G","Y">>
    [] n = "FLUID KNOTVECTORS" -> <<"F","L","U","I","D"," ","K","N","O","T","V","E","C","T","O","R","S">>
    [] n = "FUNCT1" -> <<"F","U","N","C","T","1">>
    [] n = "io" -> <<"i","o">>
    [] n = "ZZ" -> <<"Z","Z">>

\* code points, for Python's string ordering
Code(c) ==
  CASE c = " " -> 32 [] c = "-" -> 45 [] c = "1" -> 49 [] c = "A" -> 65
    [] c = "C" -> 67 [] c = "D" -> 68 [] c = "E" -> 69 [] c = "F" -> 70
    [] c = "G" -> 71 [] c = "I" -> 73 [] c = "K" -> 75 [] c = "L" -> 76
    [] c = "M" -> 77 [] c = "N" -> 78 [] c = "O" -> 79 [] c = "P" -> 80
    [] c = "R" -> 82 [] c = "S" -> 83 [] c = "T" -> 84 [] c = "U" -> 85
    [] c = "V" -> 86 [] c = "Y" -> 89 [] c = "Z" -> 90 [] c = "i" -> 105
    [] c = "o" -> 111

RECURSIVE SeqLess(_, _)
SeqLess(a, b) ==
  IF a = <<>> THEN b # <<>>
  ELSE IF b = <<>> THEN FALSE
  ELSE IF Code(Head(a)) # Code(Head(b)) THEN Code(Head(a)) < Code(Head(b))
  ELSE SeqLess(Tail(a), Tail(b))
StrLess(x, y) == SeqLess(Chars(x), Chars(y))

StartsWith(n, prefix) ==
  /\ Len(Chars(n)) >= Len(prefix)
  /\ SubSeq(Chars(n), 1, Len(prefix)) = prefix
EndsWith(n, suffix) ==
  /\ Len(Chars(n)) >= Len(suffix)
  /\ SubSeq(Chars(n), Len(Chars(n)) - Len(suffix) + 1, Len(Chars(n))) = suffix

is_section_known(section_name) ==
  section_name \in SECTIONS \/ StartsWith(section_name, <<"F","U","N","C","T">>)

\* ------------------------------------------------------------- difflib
\* difflib.SequenceMatcher (standard library).  MatchedChars(x, w) is the
\* total size of the matching blocks of candidate x and word w.upper(), as
\* SequenceMatcher(None, x, w.upper()).get_matching_blocks() computes it
\* (longest common block first, then recursively to its left and right);
\* the columns are numbered by NameIndex.
NameIndex(w) ==
  CASE w = "INCLUDES" -> 1 [] w = "IO" -> 2 [] w = "PARTICLES" -> 3
    [] w = "FLUID DOMAIN" -> 4 [] w = "FUNCT1" -> 5 [] w = "io" -> 6
    [] w = "ZZ" -> 7
MatchedCharsRow(x) ==
  CASE x = "INCLUDES" -> <<8, 1, 5, 2, 2, 1, 0>>
    [] x = "IO" -> <<1, 2, 1, 2, 0, 2, 0>>
    [] x = "PARTICLES" -> <<5, 1, 9, 2, 1, 1, 0>>
    [] x = "FLUID DOMAIN" -> <<3, 2, 1, 12, 3, 2, 0>>
    [] x = "NODE COORDS" -> <<4, 1, 2, 1, 2, 1, 0>>
    [] x = "FLUID ELEMENTS" -> <<5, 1, 4, 8, 4, 1, 0>>
    [] x = "DNODE-NODE TOPOLOGY" -> <<3, 1, 1, 2, 2, 1, 0>>
    [] x = "FLUID KNOTVECTORS" -> <<5, 2, 3, 7, 5, 2, 0>>
    [] x = "FUNCT1" -> <<2, 0, 1, 3, 6, 0, 0>>
    [] x = "io" -> <<0, 0, 0, 0, 0, 0, 0>>
    [] x = "ZZ" -> <<0, 0, 0, 0, 0, 0, 2>>
MatchedChars(x, w) == MatchedCharsRow(x)[NameIndex(w)]

\* ratio() = 2*M/T, kept as the pair M, T
RatioM(x, w) == MatchedChars(x, w)
RatioT(x, w) == Len(Chars(x)) + Len(Chars(w))

\* cutoff=0.3 of get_close_matches, in tenths
CutoffTenths == 3

\* get_close_matches(word.upper(), possibilities, n=1, cutoff=0.3): the set
\* is empty or holds the best candidate (highest ratio, then largest string)
CloseEnough(word, possibilities) ==
  {x \in possibilities : 10 * 2 * RatioM(x, word) >= CutoffTenths * RatioT(x, word)}
\* x ranks at least as high as y: lx and ly are their ratios brought to a
\* common denominator
RanksFirst(lx, ly, x, y) == lx > ly \/ (lx = ly /\ (x = y \/ StrLess(y, x)))
Beats(x, y, word) ==
  RanksFirst(RatioM(x, word) * RatioT(y, word), RatioM(y, word) * RatioT(x, word), x, y)
Best(ok, word) == {x \in ok : \A y \in ok : Beats(x, y, word)}
get_close_matches(word, possibilities) == Best(CloseEnough(word, possibilities), word)

\* ------------------------------------------------------------- values
\* A section value is a tagged tree, flattened to what the document code
\* inspects: whether it is a list or a dict, whether the entries of a list
\* are strings or dicts, and whether it still holds non-native types.
\*   item: "line" a raw legacy text line (id = its token sequence, pad = its
\*         whitespace layout, 0 for single spaces), "rec" a dict (an
\*         interpreted record), "path" a plain string naming a file
\*   value: kind "scalar" | "list" | "dict"; np = holds non-native types
Item(tag, id, pad) == [tag |-> tag, id |-> id, pad |-> pad]
Val(kind, np, id, items) == [kind |-> kind, np |-> np, id |-> id, items |-> items]
Scalar(id, np) == Val("scalar", np, id, <<>>)
List(items) == Val("list", FALSE, 0, items)
NotSet == Val("NotSet", FALSE, 0, <<>>)   \* utils.not_set.NotSet sentinel
None == Val("None", FALSE, 0, <<>>)       \* Python's None

\* Converter (utils/converter.py, outside the sources at hand): normalises a
\* tree to native types; idempotent, changes nothing else
type_converter(value) == [value EXCEPT !.np = FALSE]

\* ------------------------------------------- insertion-ordered mappings
Entry(k, v) == [k |-> k, v |-> v]
Keys(m) == {m[i].k : i \in 1..Len(m)}
Has(m, k) == \E i \in 1..Len(m) : m[i].k = k
IndexOf(m, k) == CHOOSE i \in 1..Len(m) : m[i].k = k
Lookup(m, k) == m[IndexOf(m, k)].v
\* dict[k] = v: an existing key keeps its position, a new key goes last
Put(m, k, v) ==
  IF Has(m, k) THEN [m EXCEPT ![IndexOf(m, k)] = Entry(k, v)]
  ELSE Append(m, Entry(k, v))
\* dict.pop(k)
Del(m, k) == SelectSeq(m, LAMBDA e : e.k # k)
\* dict | dict: the left keys in order, then the new keys of the right;
\* a shared key keeps the left position and takes the right value
RECURSIVE Union(_, _)
Union(m1, m2) ==
  IF m2 = <<>> THEN m1 ELSE Union(Put(m1, Head(m2).k, Head(m2).v), Tail(m2))
\* dict == dict: same keys, same values, order irrelevant
SameMapping(m1, m2) ==
  /\ Keys(m1) = Keys(m2)
  /\ \A k \in Keys(m1) : Lookup(m1, k) = Lookup(m2, k)
KeySeq(m) == [i \in 1..Len(m) |-> m[i].k]

\* --------------------------------------------------------- the document
\* s = _sections, l = _legacy_sections.  ord is a history field, not program
\* state: the names in the order in which they were inserted into the
\* document as a whole (what one single dict would remember).
Doc(s, l, ord) == [s |-> s, l |-> l, ord |-> ord]
EmptyDoc == Doc(<<>>, <<>>, <<>>)
SeqDel(q, k) == SelectSeq(q, LAMBDA x : x # k)
SeqAdd(q, k) == IF \E i \in 1..Len(q) : q[i] = k THEN q ELSE Append(q, k)

sections(doc) == Union(doc.s, doc.l)
get_section_names(doc) == Keys(doc.l) \cup Keys(doc.s)
Contains(doc, item) == item \in get_section_names(doc)
items(doc) == sections(doc)
copy(doc) == doc
Eq(doc, other) == SameMapping(sections(doc), sections(other))

\* results of an operation
Res(exc, sug, ret, doc) == [exc |-> exc, sug |-> sug, ret |-> ret, doc |-> doc]
Ok(ret, doc) == Res("none", "", ret, doc)

\* the f-string of the "Did you mean" messages: indexing [0] into an empty
\* list of matches raises IndexError before the exception is built
DidYouMean(m, doc) ==
  IF m = {} THEN Res("IndexError", "", None, doc)
  ELSE Res("UnknownSectionException", CHOOSE x \in m : TRUE, None, doc)
UnknownSectionError(key, possibilities, doc) ==
  DidYouMean(get_close_matches(key, possibilities), doc)

\* ----------------------------------------------------- legacy dispatcher
\* the record readers and writers (legacy_io/particle.py, node.py, ...) are
\* outside the sources at hand; from the specification: a reader keeps the
\* token sequence of a valid line and drops its whitespace layout, a writer
\* joins the tokens with single spaces
read_line(line) == Item("rec", line.id, 0)
write_line(rec) == Item("line", rec.id, 0)
AllTag(its, tag) == \A i \in 1..Len(its) : its[i].tag = tag
_iterate_and_evaluate_read(section_data) ==
  IF AllTag(section_data.items, "line")
  THEN Ok(List([i \in 1..Len(section_data.items) |-> read_line(section_data.items[i])]), EmptyDoc)
  ELSE Res("MalformedRecordError", "", None, EmptyDoc)
\* _iterate_and_evaluate that collects the results in reverse order
_iterate_and_evaluate_write_Reversed(section_data) ==
  IF AllTag(section_data.items, "rec")
  THEN Ok(List([i \in 1..Len(section_data.items) |->
                  write_line(section_data.items[Len(section_data.items) + 1 - i])]), EmptyDoc)
  ELSE Res("TypeError", "", None, EmptyDoc)
_iterate_and_evaluate_write(section_data) ==
  IF AllTag(section_data.items, "rec")
  THEN Ok(List([i \in 1..Len(section_data.items) |-> write_line(section_data.items[i])]), EmptyDoc)
  ELSE Res("TypeError", "", None, EmptyDoc)
\* domain: the whole section body decodes to one mapping and back
read_domain(section_data) ==
  IF AllTag(section_data.items, "line")
  THEN Ok(Val("dict", FALSE, 0, [i \in 1..Len(section_data.items) |-> read_line(section_data.items[i])]), EmptyDoc)
  ELSE Res("MalformedRecordError", "", None, EmptyDoc)
write_domain(section_data) ==
  Ok(List([i \in 1..Len(section_data.items) |-> write_line(section_data.items[i])]), EmptyDoc)

SufELEMENTS == <<"E","L","E","M","E","N","T","S">>
SufNODETOPOLOGY == <<"N","O","D","E"," ","T","O","P","O","L","O","G","Y">>
SufDOMAIN == <<"D","O","M","A","I","N">>
SufKNOTVECTORS == <<"K","N","O","T","V","E","C","T","O","R","S">>

\* knot vectors: the whole section body decodes to one sequence of records
\* and back
read_knotvectors(section_data) == _iterate_and_evaluate_read(section_data)
write_knotvectors(section_data) == _iterate_and_evaluate_write(section_data)

\* the case of the match statement of interpret_legacy_section that a name
\* selects, in the order of the cases
interpret_kind(legacy_section) ==
  IF legacy_section = "PARTICLES" THEN "particle"
  ELSE IF legacy_section = "NODE COORDS" THEN "node"
  ELSE IF EndsWith(legacy_section, SufELEMENTS) THEN "element"
  ELSE IF EndsWith(legacy_section, SufNODETOPOLOGY) THEN "node_topology"
  ELSE IF EndsWith(legacy_section, SufDOMAIN) THEN "domain"
  ELSE IF EndsWith(legacy_section, SufKNOTVECTORS) THEN "knotvectors"
  ELSE "none"

\* the body of the case selected
interpret_as(kind, section_data) ==
  IF kind \in {"particle", "node", "element", "node_topology"}
  THEN _iterate_and_evaluate_read(section_data)
  ELSE IF kind = "domain" THEN read_domain(section_data)
  ELSE IF kind = "knotvectors" THEN read_knotvectors(section_data)
  ELSE Res("NotImplementedError", "", None, EmptyDoc)
interpret_legacy_section(legacy_section, section_data) ==
  IF legacy_section \notin LEGACY_SECTIONS THEN Res("ValueError", "", None, EmptyDoc)
  ELSE interpret_as(interpret_kind(legacy_section), section_data)

IsSequence(section_data) == section_data.kind = "list"

\* inline_kind with the DOMAIN suffix taken for knot vectors
inline_kind_DomainAsKnotvectors(legacy_section) ==
  IF legacy_section = "PARTICLES" THEN "particle"
  ELSE IF legacy_section = "NODE COORDS" THEN "node"
  ELSE IF EndsWith(legacy_section, SufELEMENTS) THEN "element"
  ELSE IF EndsWith(legacy_section, SufNODETOPOLOGY) THEN "node_topology"
  ELSE IF EndsWith(legacy_section, SufKNOTVECTORS) THEN "knotvectors"
  ELSE IF EndsWith(legacy_section, SufDOMAIN) THEN "knotvectors"
  ELSE "none"

\* the case of the match statement of inline_legacy_section that a name
\* selects, in the order of the cases (KNOTVECTORS before DOMAIN)
inline_kind(legacy_section) ==
  IF legacy_section = "PARTICLES" THEN "particle"
  ELSE IF legacy_section = "NODE COORDS" THEN "node"
  ELSE IF EndsWith(legacy_section, SufELEMENTS) THEN "element"
  ELSE IF EndsWith(legacy_section, SufNODETOPOLOGY) THEN "node_topology"
  ELSE IF EndsWith(legacy_section, SufKNOTVECTORS) THEN "knotvectors"
  ELSE IF EndsWith(legacy_section, SufDOMAIN) THEN "domain"
  ELSE "none"

\* the body of the case selected
inline_as(kind, section_data) ==
  IF kind \in {"particle", "node", "element", "node_topology"}
  THEN IF ~IsSequence(section_data) THEN Res("TypeError", "", None, EmptyDoc)
       ELSE _iterate_and_evaluate_write(section_data)
  ELSE IF kind = "knotvectors"
  THEN IF ~IsSequence(section_data) THEN Res("TypeError", "", None, EmptyDoc)
       ELSE write_knotvectors(section_data)
  ELSE IF kind = "domain"
  THEN IF section_data.kind # "dict" THEN Res("TypeError", "", None, EmptyDoc)
       ELSE write_domain(section_data)
  ELSE Res("ValueError", "", None, EmptyDoc)
inline_legacy_section(legacy_section, section_data) ==
  inline_as(inline_kind(legacy_section), section_data)

\* inline every legacy section, in the mapping's order; the first failure
\* propagates.  The result carries the inlined mapping in field doc.l
RECURSIVE inline_legacy_sections(_, _)
\* r is the inlined section i: assign it and go on, or propagate its failure
InlineAssign(legacy_sections, i, r) ==
  IF r.exc # "none" THEN r
  ELSE inline_legacy_sections(
         [legacy_sections EXCEPT ![i] = Entry(legacy_sections[i].k, r.ret)], i + 1)
inline_legacy_sections(legacy_sections, i) ==
  IF i > Len(legacy_sections) THEN Ok(None, Doc(<<>>, legacy_sections, <<>>))
  ELSE InlineAssign(legacy_sections, i,
                    inline_legacy_section(legacy_sections[i].k, legacy_sections[i].v))

\* --------------------------------------------------- document operations
HasDictEntry(value) == \E i \in 1..Len(value.items) : value.items[i].tag = "rec"
PutS(doc, key, v) == Doc(Put(doc.s, key, v), doc.l, SeqAdd(doc.ord, key))
PutL(doc, key, v) == Doc(doc.s, Put(doc.l, key, v), SeqAdd(doc.ord, key))

\* __setitem__ that files every legacy section under _sections as well
SetItem_BothPartitions(doc, key, value) ==
  LET v == type_converter(value)
  IN IF is_section_known(key) THEN Ok(None, PutS(doc, key, v))
     ELSE IF key \in LEGACY_SECTIONS
     THEN IF v.kind \in {"list", "dict"}
          THEN Ok(None, PutL(PutS(doc, key, v), key, v))
          ELSE Res("TypeError", "", None, doc)
     ELSE UnknownSectionError(key, ALL_SECTIONS, doc)

\* __setitem__ that stores the value without converting it first
SetItem_NoConvert(doc, key, value) ==
  LET v == value
  IN IF is_section_known(key) THEN Ok(None, PutS(doc, key, v))
     ELSE IF key \in LEGACY_SECTIONS
     THEN IF v.kind = "list"
          THEN IF ~HasDictEntry(v)
               THEN LET r == interpret_legacy_section(key, v)
                    IN IF r.exc # "none" THEN Res(r.exc, "", None, doc)
                       ELSE Ok(None, PutL(doc, key, r.ret))
               ELSE Ok(None, PutL(doc, key, v))
          ELSE IF v.kind = "dict" THEN Ok(None, PutL(doc, key, v))
          ELSE Res("TypeError", "", None, doc)
     ELSE UnknownSectionError(key, ALL_SECTIONS, doc)

\* __setitem__ that interprets every list handed to a legacy name
SetItem_AlwaysInterpret(doc, key, value) ==
  LET v == type_converter(value)
  IN IF is_section_known(key) THEN Ok(None, PutS(doc, key, v))
     ELSE IF key \in LEGACY_SECTIONS
     THEN IF v.kind = "list"
          THEN LET r == interpret_legacy_section(key, v)
               IN IF r.exc # "none" THEN Res(r.exc, "", None, doc)
                  ELSE Ok(None, PutL(doc, key, r.ret))
          ELSE IF v.kind = "dict" THEN Ok(None, PutL(doc, key, v))
          ELSE Res("TypeError", "", None, doc)
     ELSE UnknownSectionError(key, ALL_SECTIONS, doc)

\* line 169: store the interpreted section r, or propagate the failure
StoreInterpreted(doc, key, r) ==
  IF r.exc # "none" THEN Res(r.exc, "", None, doc)
  ELSE Ok(None, PutL(doc, key, r.ret))
\* FourCInput.__setitem__ after line 156, v being the converted value
SetConverted(doc, key, v) ==
  IF is_section_known(key) THEN Ok(None, PutS(doc, key, v))
  ELSE IF key \in LEGACY_SECTIONS
  THEN IF v.kind = "list"
       THEN IF ~HasDictEntry(v)
            THEN StoreInterpreted(doc, key, interpret_legacy_section(key, v))
            ELSE Ok(None, PutL(doc, key, v))
       ELSE IF v.kind = "dict" THEN Ok(None, PutL(doc, key, v))
       ELSE Res("TypeError", "", None, doc)
  ELSE UnknownSectionError(key, ALL_SECTIONS, doc)

\* FourCInput.__setitem__
SetItem(doc, key, value) == SetConverted(doc, key, type_converter(value))

\* FourCInput.__getitem__
GetItem(doc, key) ==
  IF is_section_known(key)
  THEN IF Has(doc.s, key) THEN Ok(Lookup(doc.s, key), doc)
       ELSE Res("KeyError", "", None, doc)
  ELSE IF Has(doc.l, key) THEN Ok(Lookup(doc.l, key), doc)
  ELSE UnknownSectionError(key, ALL_SECTIONS, doc)

\* FourCInput.known_sections
known_sections == ALL_SECTIONS
check_if_set(value) == value # NotSet

\* pop that returns the section and leaves it in the document
PopItem_NoRemove(doc, key, default_value) ==
  IF Has(doc.s, key) THEN Ok(Lookup(doc.s, key), doc)
  ELSE IF Has(doc.l, key) THEN Ok(Lookup(doc.l, key), doc)
  ELSE IF key \in known_sections
  THEN IF check_if_set(default_value) THEN Ok(default_value, doc)
       ELSE UnknownSectionError(key, get_section_names(doc), doc)
  ELSE UnknownSectionError(key, ALL_SECTIONS, doc)

\* FourCInput.pop
PopItem(doc, key, default_value) ==
  IF Has(doc.s, key)
  THEN Ok(Lookup(doc.s, key), Doc(Del(doc.s, key), doc.l, SeqDel(doc.ord, key)))
  ELSE IF Has(doc.l, key)
  THEN Ok(Lookup(doc.l, key), Doc(doc.s, Del(doc.l, key), SeqDel(doc.ord, key)))
  ELSE IF key \in known_sections
  THEN IF check_if_set(default_value) THEN Ok(default_value, doc)
       ELSE UnknownSectionError(key, get_section_names(doc), doc)
  ELSE UnknownSectionError(key, ALL_SECTIONS, doc)

\* the argument of combine_sections / overwrite_sections: a dict, a
\* FourCInput, or something else; its = other.items() in iteration order
OtherOf(type, its) == [type |-> type, its |-> its]
AsOther(doc) == OtherOf("FourCInput", items(doc))

\* FourCInput.overwrite_sections: self[key] = value for every item; the
\* first exception leaves the sections set so far in place
RECURSIVE SetAll(_, _)
SetRest(r, its) == IF r.exc # "none" THEN r ELSE SetAll(r.doc, its)
SetAll(doc, its) ==
  IF its = <<>> THEN Ok(None, doc)
  ELSE SetRest(SetItem(doc, Head(its).k, Head(its).v), Tail(its))
overwrite_sections(doc, other) ==
  IF other.type \in {"dict", "FourCInput"} THEN SetAll(doc, other.its)
  ELSE Res("TypeError", "", None, doc)

\* combine_sections that looks for the collision while it merges, key by key
RECURSIVE SetAllChecked(_, _)
SetAllChecked(doc, its) ==
  IF its = <<>> THEN Ok(None, doc)
  ELSE IF Head(its).k \in get_section_names(doc) THEN Res("ValueError", "", None, doc)
  ELSE LET r == SetItem(doc, Head(its).k, Head(its).v)
       IN IF r.exc # "none" THEN r ELSE SetAllChecked(r.doc, Tail(its))
combine_sections_CheckWhileMerging(doc, other) ==
  IF other.type \notin {"dict", "FourCInput"} THEN Res("TypeError", "", None, doc)
  ELSE SetAllChecked(doc, other.its)

\* combine_sections without the collision check
combine_sections_NoCheck(doc, other) ==
  IF other.type \notin {"dict", "FourCInput"} THEN Res("TypeError", "", None, doc)
  ELSE overwrite_sections(doc, other)

\* FourCInput.combine_sections
combine_sections(doc, other) ==
  IF other.type \notin {"dict", "FourCInput"} THEN Res("TypeError", "", None, doc)
  ELSE IF get_section_names(doc) \cap Keys(other.its) # {}
  THEN Res("ValueError", "", None, doc)
  ELSE overwrite_sections(doc, other)

\* FourCInput.__add__
Add(doc, other) == combine_sections(copy(doc), AsOther(other))

\* FourCInput.convert_to_native_types
ConvertMap(m) == [i \in 1..Len(m) |-> Entry(m[i].k, type_converter(m[i].v))]
convert_to_native_types(doc) == Doc(ConvertMap(doc.s), ConvertMap(doc.l), doc.ord)

\* FourCInput.__init__(sections)
NewFourCInput(data) == SetAll(EmptyDoc, data)

\* FourCInput.split: the result carries the receiver after the call (self),
\* the root copy (rem) and the split-off document (ext)
SplitRes(exc, sug, self, rem, ext) ==
  [exc |-> exc, sug |-> sug, self |-> self, rem |-> rem, ext |-> ext]
RECURSIVE SplitLoop(_, _, _, _)
\* q is the result of spiltted_input[section] = ..., p of root_input.pop(section)
SplitSet(self, root_input, q, section_names) ==
  IF q.exc # "none" THEN SplitRes(q.exc, q.sug, self, EmptyDoc, EmptyDoc)
  ELSE SplitLoop(self, root_input, q.doc, Tail(section_names))
SplitPopped(self, p, spiltted_input, section_names) ==
  IF p.exc # "none" THEN SplitRes(p.exc, p.sug, self, EmptyDoc, EmptyDoc)
  ELSE SplitSet(self, p.doc, SetItem(spiltted_input, Head(section_names), p.ret),
                section_names)
SplitLoop(self, root_input, spiltted_input, section_names) ==
  IF section_names = <<>> THEN SplitRes("none", "", self, root_input, spiltted_input)
  ELSE SplitPopped(self, PopItem(root_input, Head(section_names), NotSet),
                   spiltted_input, section_names)
\* split that pops from the receiver itself instead of from a copy
split_InPlace(doc, section_names) ==
  LET r == SplitLoop(doc, doc, EmptyDoc, section_names)
  IN IF r.exc = "none" THEN [r EXCEPT !.self = r.rem] ELSE r
split(doc, section_names) == SplitLoop(doc, copy(doc), EmptyDoc, section_names)

\* inlined with the operands of | swapped: legacy sections first
inlined_LegacyFirst(doc) ==
  LET r == inline_legacy_sections(copy(doc.l), 1)
  IN IF r.exc # "none" THEN Res(r.exc, "", None, Doc(<<>>, doc.l, <<>>))
     ELSE Ok(None, Doc(Union(r.doc.l, doc.s), doc.l, <<>>))

\* inlined that hands _legacy_sections itself, not a copy, to
\* inline_legacy_sections, which assigns the lines into the dict it is given
inlined_NoCopy(doc) ==
  LET r == inline_legacy_sections(doc.l, 1)
  IN IF r.exc # "none" THEN Res(r.exc, "", None, Doc(<<>>, doc.l, <<>>))
     ELSE Ok(None, Doc(Union(doc.s, r.doc.l), r.doc.l, <<>>))

\* FourCInput.inlined: _sections | inline_legacy_sections(copy of legacy).
\* In the result, doc.s is the dict returned and doc.l is _legacy_sections
\* of the receiver after the call
InlinedWith(doc, r) ==
  IF r.exc # "none" THEN Res(r.exc, "", None, Doc(<<>>, doc.l, <<>>))
  ELSE Ok(None, Doc(Union(doc.s, r.doc.l), doc.l, <<>>))
inlined(doc) == InlinedWith(doc, inline_legacy_sections(copy(doc.l), 1))

\* FourCInput.validate; schema_ok is the verdict of
\* validate_using_json_schema on _sections.  doc of the result is the
\* receiver after the call
AllLines(m) == \A i \in 1..Len(m) : m[i].v.kind = "list" /\ AllTag(m[i].v.items, "line")
ValidateLegacy(c, r) ==
  IF r.exc # "none" THEN Res(r.exc, "", None, c)
  ELSE IF ~AllLines(r.doc.l) THEN Res("ValidationError", "", None, c)
  ELSE Ok(None, c)
ValidateConverted(c, schema_ok) ==
  IF ~schema_ok THEN Res("ValidationError", "", None, c)
  ELSE ValidateLegacy(c, inline_legacy_sections(copy(c.l), 1))
validate(doc, schema_ok, convert) ==
  ValidateConverted(IF convert THEN convert_to_native_types(doc) ELSE doc, schema_ok)

\* ------------------------------------------------------------ environment
\* load_yaml (utils/yaml_io.py, an external codec): the files the include
\* lists can name.  File 1 lists itself in its INCLUDES (a self-referential
\* include chain); file 2 is a plain fragment with a typed section and raw
\* legacy lines.
Paths == {1, 2}
NumFiles == Cardinality(Paths)
PathItem(f) == Item("path", f, 0)
load_yaml(input_file_path) ==
  IF input_file_path = 1
  THEN <<Entry("INCLUDES", List(<<PathItem(1)>>))>>
  ELSE <<Entry("IO", Scalar(1, FALSE)), Entry("PARTICLES", List(<<Item("line", 1, 1)>>))>>

\* FourCInput.from_4C_yaml with header_only = False
from_4C_yaml(input_file_path) == NewFourCInput(load_yaml(input_file_path))

\* the include files a loaded document names in its own INCLUDES section
NestedIncludes(doc) ==
  IF Has(doc.s, "INCLUDES") THEN Lookup(doc.s, "INCLUDES").items ELSE <<>>

\* a file is on a self-referential include chain when following INCLUDES
\* lists from it leads back to a file already visited
IncludesOf(f) ==
  LET m == load_yaml(f)
  IN IF Has(m, "INCLUDES")
     THEN {Lookup(m, "INCLUDES").items[i].id : i \in 1..Len(Lookup(m, "INCLUDES").items)}
     ELSE {}
RECURSIVE ReachFrom(_, _)
ReachFrom(fs, n) ==
  IF n = 0 THEN fs ELSE ReachFrom(fs \cup UNION {IncludesOf(f) : f \in fs}, n - 1)
SelfReferential(f) == \E g \in ReachFrom({f}, NumFiles) : g \in ReachFrom(IncludesOf(g), NumFiles)

\* ------------------------------------------------------------------ inputs
SeqsUpTo(S, n) == UNION {[1..k -> S] : k \in 0..n}
\* a line with single spaces (pad 0) and the same tokens spaced out (pad 1)
Lines == {Item("line", 1, p) : p \in {0, 1}}
DefaultValue == Scalar(9, FALSE)
SetValues(key) ==
  CASE key = "INCLUDES" -> {List(q) : q \in SeqsUpTo({PathItem(f) : f \in Paths}, MaxIncludes)}
    [] key = "IO" -> {Scalar(1, FALSE), Scalar(2, TRUE)}
    [] key = "PARTICLES" ->
         {List(q) : q \in SeqsUpTo(Lines, MaxLines) \ {<<>>}}
           \cup {List(<<Item("rec", 1, 0)>>), Val("dict", TRUE, 1, <<>>), Scalar(1, FALSE)}
    [] key = "FLUID DOMAIN" -> {}
    [] OTHER -> {Scalar(1, TRUE)}
Others ==
  { OtherOf("dict", <<Entry("IO", Scalar(2, TRUE))>>),
    OtherOf("FourCInput", <<Entry("FUNCT1", Scalar(1, FALSE)),
                            Entry("PARTICLES", List(<<Item("rec", 1, 0)>>))>>),
    OtherOf("dict", <<Entry("PARTICLES", List(<<Item("line", 1, 1)>>)),
                      Entry("io", Scalar(1, FALSE))>>),
    OtherOf("list", <<>>) }
SplitNames == {"INCLUDES", "IO", "PARTICLES"}
\* every short list of names, lists naming a section twice included
SplitArgs == SeqsUpTo(SplitNames, MaxSplit)
\* the lists handed to dump_with_includes: no section named twice (split
\* shows what a repeated name does)
DumpArgs == {q \in SplitArgs : \A i, j \in 1..Len(q) : q[i] = q[j] => i = j}

\* ------------------------------------------------------------------- state
VARIABLES
  d,        \* the document the operations are called on
  last,     \* the call being made: operation, arguments, outcome, document before
  pc,       \* the caller: "idle" between two calls, "loading" inside the loop
            \* of load_includes, "returned" when a call has returned or raised
  pending   \* load_includes: the include files still to be loaded
vars == <<d, last, pc, pending>>

NoCall ==
  [op |-> "init", key |-> "", arg |-> None, names |-> <<>>,
   other |-> OtherOf("dict", <<>>), flag |-> FALSE, exc |-> "none", sug |-> "",
   ret |-> None, pre |-> EmptyDoc, self |-> EmptyDoc, rem |-> EmptyDoc,
   ext |-> EmptyDoc, handed |-> <<>>, n |-> 0,
   root |-> <<>>, splitf |-> <<>>, loaded |-> EmptyDoc,
   again |-> None, lines |-> None, rkind |-> "", wkind |-> ""]

Init == d = EmptyDoc /\ last = NoCall /\ pc = "idle" /\ pending = <<>>

Finish(op, key, arg, r) ==
  /\ d' = r.doc
  /\ last' = [NoCall EXCEPT !.op = op, !.key = key, !.arg = arg, !.exc = r.exc,
                            !.sug = r.sug, !.ret = r.ret, !.pre = d]
  /\ pc' = "returned"
  /\ UNCHANGED pending

\* d[key] = value
Set ==
  /\ pc = "idle"
  /\ \E key \in Names : \E value \in SetValues(key) :
       Finish("set", key, value, SetItem(d, key, value))

\* d[key]
Get ==
  /\ pc = "idle"
  /\ \E key \in Names : Finish("get", key, None, GetItem(d, key))

\* d.pop(key) and d.pop(key, default)
Pop ==
  /\ pc = "idle"
  /\ \E key \in Names : \E default_value \in {NotSet, DefaultValue} :
       Finish("pop", key, default_value, PopItem(d, key, default_value))

Combine ==
  /\ pc = "idle"
  /\ \E other \in Others :
       LET r == combine_sections(d, other)
       IN /\ d' = r.doc
          /\ last' = [NoCall EXCEPT !.op = "combine", !.other = other,
                                    !.exc = r.exc, !.sug = r.sug, !.pre = d]
          /\ pc' = "returned"
          /\ UNCHANGED pending

Overwrite ==
  /\ pc = "idle"
  /\ \E other \in Others :
       LET r == overwrite_sections(d, other)
       IN /\ d' = r.doc
          /\ last' = [NoCall EXCEPT !.op = "overwrite", !.other = other,
                                    !.exc = r.exc, !.sug = r.sug, !.pre = d]
          /\ pc' = "returned"
          /\ UNCHANGED pending

Convert ==
  /\ pc = "idle"
  /\ d' = convert_to_native_types(d)
  /\ last' = [NoCall EXCEPT !.op = "convert", !.pre = d]
  /\ pc' = "returned"
  /\ UNCHANGED pending

\* (remainder, extracted) = d.split(section_names)
Split ==
  /\ pc = "idle"
  /\ \E section_names \in SplitArgs :
       LET r == split(d, section_names)
       IN /\ d' = r.self
          /\ last' = [NoCall EXCEPT !.op = "split", !.names = section_names,
                                    !.exc = r.exc, !.sug = r.sug, !.pre = d,
                                    !.self = r.self, !.rem = r.rem, !.ext = r.ext]
          /\ pc' = "returned"
          /\ UNCHANGED pending

\* d.dump(path, sort_sections, convert_to_native_types = ...), validation
\* off: the mapping handed to dump_yaml is recorded in last.handed
Dump ==
  /\ pc = "idle"
  /\ \E sort_sections \in BOOLEAN, convert \in BOOLEAN :
       LET c == IF convert THEN convert_to_native_types(d) ELSE d
           r == inlined(c)
       IN /\ d' = Doc(c.s, r.doc.l, c.ord)
          /\ last' = [NoCall EXCEPT !.op = "dump", !.flag = sort_sections,
                                    !.exc = r.exc, !.pre = d, !.handed = r.doc.s]
          /\ pc' = "returned"
          /\ UNCHANGED pending

\* d.inlined
Inlined ==
  /\ pc = "idle"
  /\ \E r \in {inlined(d)} :
        /\ d' = Doc(d.s, r.doc.l, d.ord)
        /\ last' = [NoCall EXCEPT !.op = "inlined", !.exc = r.exc, !.pre = d,
                                  !.handed = r.doc.s]
  /\ pc' = "returned"
  /\ UNCHANGED pending

\* d.validate(convert_to_native_types = ...)
Validate ==
  /\ pc = "idle"
  /\ \E schema_ok \in BOOLEAN, convert \in BOOLEAN :
       \E r \in {validate(d, schema_ok, convert)} :
          /\ d' = r.doc
          /\ last' = [NoCall EXCEPT !.op = "validate", !.flag = convert,
                                    !.exc = r.exc, !.pre = d]
  /\ pc' = "returned"
  /\ UNCHANGED pending

\* truth value of the popped includes (None and the empty list are falsy)
Truthy(v) == v.kind # "None" /\ ~(v.kind \in {"list", "dict"} /\ v.items = <<>>)

\* load_includes, up to the loop: pop INCLUDES, enter the loop if it is set
\* and not empty
LoadIncludesBegin ==
  /\ pc = "idle"
  /\ LET p == PopItem(d, "INCLUDES", None)
         go == p.exc = "none" /\ Truthy(p.ret)
     IN /\ d' = p.doc
        /\ last' = [NoCall EXCEPT !.op = "load_includes", !.arg = p.ret,
                                  !.exc = p.exc, !.sug = p.sug, !.pre = d]
        /\ pc' = IF go THEN "loading" ELSE "returned"
        /\ pending' = IF go THEN p.ret.items ELSE <<>>

\* a loop that resolves includes recursively: the includes of the loaded
\* file are popped from it and queued behind the current ones
LoadIncludesStep_Recursive ==
  /\ pc = "loading"
  /\ LET f == from_4C_yaml(Head(pending).id)
         g == PopItem(f.doc, "INCLUDES", None).doc
         c == IF f.exc # "none" THEN Res(f.exc, f.sug, None, d)
              ELSE combine_sections(d, AsOther(g))
         rest == Tail(pending) \o NestedIncludes(f.doc)
         more == c.exc = "none" /\ rest # <<>>
     IN /\ d' = c.doc
        /\ last' = [last EXCEPT !.exc = c.exc, !.sug = c.sug, !.n = last.n + 1]
        /\ pc' = IF more THEN "loading" ELSE "returned"
        /\ pending' = IF more THEN rest ELSE <<>>

\* one iteration of the loop: load the next file, combine it into d; an
\* exception ends the call, the last iteration returns
LoadIncludesStep ==
  /\ pc = "loading"
  /\ LET f == from_4C_yaml(Head(pending).id)
         c == IF f.exc # "none" THEN Res(f.exc, f.sug, None, d)
              ELSE combine_sections(d, AsOther(f.doc))
         more == c.exc = "none" /\ Tail(pending) # <<>>
     IN /\ d' = c.doc
        /\ last' = [last EXCEPT !.exc = c.exc, !.sug = c.sug, !.n = last.n + 1]
        /\ pc' = IF more THEN "loading" ELSE "returned"
        /\ pending' = IF more THEN Tail(pending) ELSE <<>>

\* ---------------------------------------------------- dump_with_includes
\* the two paths handed to dump_with_includes: the root file and the split
\* file
DumpPaths == <<3, 4>>
RootPath == DumpPaths[1]
SplitPath == DumpPaths[2]

\* FourCInput.dump with validation off: convert, then hand self.inlined to
\* dump_yaml; doc.s of the result is the mapping written to the file
dump(doc) == inlined(convert_to_native_types(doc))

\* the result of dump_with_includes: the exception, and the mappings
\* written to the root file and to the split file
DumpRes(exc, sug, root, splitf) == [exc |-> exc, sug |-> sug, root |-> root, splitf |-> splitf]

\* lines 483-485: dump both files; an exception of the first dump leaves
\* the second file unwritten
DumpBothFiles(fr, fs) ==
  IF fr.exc # "none" THEN DumpRes(fr.exc, "", <<>>, <<>>)
  ELSE IF fs.exc # "none" THEN DumpRes(fs.exc, "", fr.doc.s, <<>>)
  ELSE DumpRes("none", "", fr.doc.s, fs.doc.s)
DumpBoth(input_with_includes, split_input) ==
  DumpBothFiles(dump(input_with_includes), dump(split_input))

\* the append of line 480 left out
AppendSplitPath_NoAppend(input_with_includes, g, split_input) ==
  IF g.exc # "none" THEN DumpRes(g.exc, g.sug, <<>>, <<>>)
  ELSE DumpBoth(input_with_includes, split_input)

\* line 480: input_with_includes["INCLUDES"].append(str(split_input_file_path)),
\* g being the result of input_with_includes["INCLUDES"]
AppendSplitPath(input_with_includes, g, split_input) ==
  IF g.exc # "none" THEN DumpRes(g.exc, g.sug, <<>>, <<>>)
  ELSE DumpBoth(Doc(Put(input_with_includes.s, "INCLUDES",
                        [g.ret EXCEPT !.items = Append(@, PathItem(SplitPath))]),
                    input_with_includes.l, input_with_includes.ord),
                split_input)

\* lines 476-477: add the INCLUDES section if it is missing; a is the result
\* of that assignment
WithIncludes(a, split_input) ==
  IF a.exc # "none" THEN DumpRes(a.exc, a.sug, <<>>, <<>>)
  ELSE AppendSplitPath(a.doc, GetItem(a.doc, "INCLUDES"), split_input)
AddIncludesIfMissing(input_with_includes, split_input) ==
  WithIncludes(IF ~Contains(input_with_includes, "INCLUDES")
               THEN SetItem(input_with_includes, "INCLUDES", List(<<>>))
               ELSE Ok(None, input_with_includes),
               split_input)

\* lines 468-473: which half is the root and which the split file
SelectHalves(sp, invert_sections) ==
  IF sp.exc # "none" THEN DumpRes(sp.exc, sp.sug, <<>>, <<>>)
  ELSE AddIncludesIfMissing(IF ~invert_sections THEN sp.rem ELSE sp.ext,
                            IF ~invert_sections THEN sp.ext ELSE sp.rem)

\* FourCInput.dump_with_includes (sort_sections and validate off)
dump_with_includes(doc, section_names, invert_sections) ==
  SelectHalves(split(doc, section_names), invert_sections)

\* load_yaml once dump_with_includes has written its two files
ReadFile(root, splitf, input_file_path) ==
  IF input_file_path = RootPath THEN root
  ELSE IF input_file_path = SplitPath THEN splitf
  ELSE load_yaml(input_file_path)

\* load_includes on a freshly loaded document: the loop over the popped
\* list; f is the document loaded from the next file, c the result of
\* combining it into the receiver
RECURSIVE LoadLoop(_, _, _, _)
LoadCombined(c, rest, root, splitf) ==
  IF c.exc # "none" THEN c ELSE LoadLoop(c.doc, rest, root, splitf)
LoadNext(doc, f, rest, root, splitf) ==
  IF f.exc # "none" THEN Res(f.exc, f.sug, None, doc)
  ELSE LoadCombined(combine_sections(doc, AsOther(f.doc)), rest, root, splitf)
LoadLoop(doc, includes, root, splitf) ==
  IF includes = <<>> THEN Ok(None, doc)
  ELSE LoadNext(doc, NewFourCInput(ReadFile(root, splitf, Head(includes).id)),
                Tail(includes), root, splitf)
LoadPopped(p, root, splitf) ==
  IF p.exc # "none" THEN p
  ELSE IF Truthy(p.ret) THEN LoadLoop(p.doc, p.ret.items, root, splitf)
  ELSE Ok(None, p.doc)
load_includes(doc, root, splitf) ==
  LoadPopped(PopItem(doc, "INCLUDES", None), root, splitf)

\* loaded = FourCInput.from_4C_yaml(RootPath); loaded.load_includes()
ReloadFrom(f, root, splitf) ==
  IF f.exc # "none" THEN f ELSE load_includes(f.doc, root, splitf)
reload(root, splitf) ==
  ReloadFrom(NewFourCInput(ReadFile(root, splitf, RootPath)), root, splitf)

\* d.dump_with_includes(section_names, RootPath, SplitPath, invert_sections)
DumpWithIncludes ==
  /\ pc = "idle"
  /\ \E section_names \in DumpArgs, invert_sections \in BOOLEAN :
       \E r \in {dump_with_includes(d, section_names, invert_sections)} :
          /\ last' = [NoCall EXCEPT !.op = "dump_with_includes",
                                    !.names = section_names, !.flag = invert_sections,
                                    !.exc = r.exc, !.sug = r.sug, !.pre = d,
                                    !.root = r.root, !.splitf = r.splitf]
          /\ pc' = "returned"
          /\ UNCHANGED <<d, pending>>

\* after a dump_with_includes that succeeded, the two files are loaded back
Reload ==
  /\ pc = "returned" /\ last.op = "dump_with_includes" /\ last.exc = "none"
  /\ \E r \in {reload(last.root, last.splitf)} :
        /\ last' = [last EXCEPT !.op = "reload", !.exc = r.exc, !.sug = r.sug,
                                !.loaded = r.doc]
        /\ UNCHANGED <<d, pc, pending>>

\* the caller takes the result (or the exception) and goes on to its next
\* call on the document
Return ==
  /\ pc = "returned"
  /\ pc' = "idle"
  /\ last' = NoCall
  /\ UNCHANGED <<d, pending>>

Next ==
  \/ Set \/ Get \/ Pop \/ Combine \/ Overwrite \/ Convert \/ Split \/ Dump
  \/ LoadIncludesBegin \/ LoadIncludesStep \/ DumpWithIncludes \/ Reload
  \/ Inlined \/ Validate \/ Return

Spec == Init /\ [][Next]_vars

\* ------------------------------------------- the dispatcher on its own
\* interpret_legacy_section and inline_legacy_section applied to a section
\* name and a section body drawn from bounded sets, and the same body
\* stored in a document through __setitem__
LegacyNames == LEGACY_SECTIONS \cup {"IO"}
RawLines == {Item("line", id, p) : id \in {1, 2}, p \in {0, 1}}
LegacyData ==
  {List(q) : q \in SeqsUpTo(RawLines, MaxLegacyLines)}
    \cup { List(<<Item("rec", 1, 0)>>),
           List(<<Item("line", 1, 0), Item("rec", 2, 0)>>),
           Val("dict", FALSE, 0, <<Item("rec", 1, 0)>>) }

LegacyInit ==
  /\ d = EmptyDoc /\ pc = "idle" /\ pending = <<>>
  /\ \E legacy_section \in LegacyNames, section_data \in LegacyData :
       last = [NoCall EXCEPT !.op = "input", !.key = legacy_section, !.arg = section_data]

\* interpret_legacy_section(name, data)
Interpret ==
  /\ pc = "idle" /\ last.op = "input"
  /\ LET r == interpret_legacy_section(last.key, last.arg)
     IN last' = [last EXCEPT !.op = "interpret", !.exc = r.exc, !.ret = r.ret,
                             !.rkind = interpret_kind(last.key)]
  /\ pc' = "returned"
  /\ UNCHANGED <<d, pending>>

\* interpret_legacy_section(name, x) with x the result of the first call
Reinterpret ==
  /\ pc = "returned" /\ last.op = "interpret" /\ last.exc = "none"
  /\ LET r == interpret_legacy_section(last.key, last.ret)
     IN last' = [last EXCEPT !.op = "reinterpret", !.exc = r.exc, !.again = r.ret]
  /\ UNCHANGED <<d, pc, pending>>

\* inline_legacy_section(name, x) with x the result of interpret
Inline ==
  /\ pc = "returned" /\ last.op = "interpret" /\ last.exc = "none"
  /\ LET r == inline_legacy_section(last.key, last.ret)
     IN last' = [last EXCEPT !.op = "inline", !.exc = r.exc, !.lines = r.ret,
                             !.wkind = inline_kind(last.key)]
  /\ UNCHANGED <<d, pc, pending>>

\* d[name] = data on an empty document
SetSection ==
  /\ pc = "idle" /\ last.op = "input"
  /\ LET r == SetItem(d, last.key, last.arg)
     IN /\ d' = r.doc
        /\ last' = [last EXCEPT !.op = "set", !.exc = r.exc, !.sug = r.sug, !.pre = d]
  /\ pc' = "returned"
  /\ UNCHANGED pending

\* d[name] = d[name]
SetAgain ==
  /\ pc = "returned" /\ last.op = "set" /\ last.exc = "none"
  /\ LET g == GetItem(d, last.key)
         r == IF g.exc # "none" THEN g ELSE SetItem(d, last.key, g.ret)
     IN /\ d' = r.doc
        /\ last' = [last EXCEPT !.op = "set_again", !.exc = r.exc, !.sug = r.sug,
                                !.ret = g.ret, !.pre = d]
  /\ UNCHANGED <<pc, pending>>

LegacyNext == Interpret \/ Reinterpret \/ Inline \/ SetSection \/ SetAgain

LegacySpec == LegacyInit /\ [][LegacyNext]_vars

TypeOK == pc \in {"idle", "loading", "returned"}

\* ================================================================ claims
Called(op) == pc = "returned" /\ last.op = op
Succeeded(op) == Called(op) /\ last.exc = "none"
Range(q) == {q[i] : i \in 1..Len(q)}
NoDuplicates(q) == \A i, j \in 1..Len(q) : q[i] = q[j] => i = j
\* the names of q that are in S, in the order of q
Restrict(q, S) == SelectSeq(q, LAMBDA x : x \in S)

\* C1: no section name is a key of both the structured partition
\* (_sections) and the legacy partition (_legacy_sections), whatever
\* operations were called on the document.
C1_PartitionsDisjoint == Keys(d.s) \cap Keys(d.l) = {}
C1_Witness ==
  /\ Succeeded("set") /\ last.key \in LEGACY_SECTIONS
  /\ Keys(d.s) # {} /\ last.key \in Keys(d.l)

\* C2 as stated: right after d[name] = v succeeded, d[name] returns
\* coerce(v), for structured and for legacy names alike.
C2_GetReturnsCoerced ==
  Succeeded("set") =>
    /\ GetItem(d, last.key).exc = "none"
    /\ GetItem(d, last.key).ret = type_converter(last.arg)
\* C2 amended: right after d[name] = v succeeded, d[name] returns coerce(v),
\* except for a legacy name whose v is a list without any mapping entry (raw
\* text lines): then it returns the interpreted records,
\* interpret_legacy_section(name, coerce(v)).
IsRawLines(key, v) ==
  ~is_section_known(key) /\ key \in LEGACY_SECTIONS /\ v.kind = "list" /\ ~HasDictEntry(v)
C2_GetReturnsCoercedOrInterpreted ==
  Succeeded("set") =>
    /\ GetItem(d, last.key).exc = "none"
    /\ GetItem(d, last.key).ret =
         IF IsRawLines(last.key, last.arg)
         THEN interpret_legacy_section(last.key, type_converter(last.arg)).ret
         ELSE type_converter(last.arg)
C2_Witness ==
  /\ Succeeded("set") /\ IsRawLines(last.key, last.arg)
  /\ last.arg.items # <<>> /\ last.arg.items[1].pad = 1
  /\ Has(last.pre.l, last.key)

\* C3: combine_sections(other) with a dict or FourCInput that shares a
\* section name with the receiver raises the naming-collision ValueError and
\* leaves both partitions of the receiver as they were.
C3_Collides ==
  /\ Called("combine") /\ last.other.type \in {"dict", "FourCInput"}
  /\ get_section_names(last.pre) \cap Keys(last.other.its) # {}
C3_CombineCollisionAtomic ==
  C3_Collides => last.exc = "ValueError" /\ d = last.pre
C3_Witness ==
  /\ C3_Collides /\ Len(last.other.its) = 2
  /\ last.other.its[1].k \notin get_section_names(last.pre)

\* C4: pop(name, default) with name not set returns default and leaves the
\* document unchanged, for every name; pop(name) with name not set raises
\* UnknownSectionException.
C4_PopAbsent ==
  (Called("pop") /\ ~Contains(last.pre, last.key)) =>
    IF check_if_set(last.arg)
    THEN last.exc = "none" /\ last.ret = last.arg /\ d = last.pre
    ELSE last.exc = "UnknownSectionException"

\* C5: set, get and pop-without-default with a name that is in neither
\* catalog end in UnknownSectionException with a suggested catalog name, and
\* the document is unchanged.
C5_InNoCatalog(key) == key \notin ALL_SECTIONS /\ ~is_section_known(key)
C5_UnknownNameRaisesWithSuggestion ==
  ( /\ pc = "returned"
    /\ last.op \in {"set", "get"} \/ (last.op = "pop" /\ ~check_if_set(last.arg))
    /\ C5_InNoCatalog(last.key) ) =>
    /\ last.exc = "UnknownSectionException"
    /\ last.sug \in ALL_SECTIONS
    /\ d = last.pre

\* C6 as stated: after a successful d.split(names), d itself holds none of
\* the names.
C6_SourceLosesNames ==
  Succeeded("split") => \A i \in 1..Len(last.names) : ~Contains(d, last.names[i])
\* C6 amended: after a successful d.split(names), d is unchanged and still
\* holds every name of names; it is the returned remainder that holds none
\* of them.
C6_SourceUnchangedRemainderLosesNames ==
  Succeeded("split") =>
    /\ d = last.pre
    /\ \A i \in 1..Len(last.names) :
         Contains(d, last.names[i]) /\ ~Contains(last.rem, last.names[i])
C6_Witness ==
  /\ Succeeded("split") /\ Len(last.names) = 2
  /\ Keys(last.rem.s) # {}

\* C7: for a duplicate-free list names of sections set in d, split succeeds,
\* extracted holds exactly names, remainder exactly the other names of d,
\* and remainder + extracted succeeds and equals d (names and values).
C7_Applies ==
  /\ Called("split") /\ NoDuplicates(last.names)
  /\ Range(last.names) \subseteq get_section_names(last.pre)
C7_SplitCombineRoundTrip ==
  C7_Applies =>
    /\ last.exc = "none"
    /\ get_section_names(last.ext) = Range(last.names)
    /\ get_section_names(last.rem) = get_section_names(last.pre) \ Range(last.names)
    /\ Add(last.rem, last.ext).exc = "none"
    /\ Eq(Add(last.rem, last.ext).doc, last.pre)
C7_Witness ==
  /\ C7_Applies /\ Len(last.names) = 2
  /\ "PARTICLES" \in Range(last.names) /\ Keys(last.ext.s) # {}
  /\ get_section_names(last.rem) # {}

\* C8 as stated: load_includes on a document whose include chain is
\* self-referential never terminates: once its loop is entered, the call
\* neither returns nor raises.
IncludedFiles(v) == {v.items[i].id : i \in 1..Len(v.items)}
C8_SelfReferentialCall ==
  /\ last.op = "load_includes" /\ last.arg.kind = "list"
  /\ \E f \in IncludedFiles(last.arg) : SelfReferential(f)
C8_SelfReferenceNeverTerminates == C8_SelfReferentialCall => pc = "loading"
\* C8 amended: load_includes loads only the files named in the receiver's own
\* INCLUDES list, once per entry; the INCLUDES list of an included file is
\* merged as an ordinary section and not followed.  The call therefore ends
\* after at most len(INCLUDES) loads, also on a self-referential chain.
C8_LoadsBoundedByList ==
  last.op = "load_includes" =>
    /\ last.n + Len(pending) <= Len(last.arg.items)
    /\ (pc = "loading" => pending # <<>>)
    /\ (pc = "returned" => pending = <<>>)
C8_Witness ==
  /\ C8_SelfReferentialCall /\ Succeeded("load_includes")
  /\ last.n = 2 /\ Contains(d, "INCLUDES")

\* C9 as stated: when load_includes raises the naming-collision error, the
\* receiver is in the state it had before the call.
C9_CollisionRestoresReceiver ==
  (Called("load_includes") /\ last.exc = "ValueError") => d = last.pre
\* C9 amended: includes are loaded and combined in list order and the first
\* include that shares a name with the receiver or an earlier include
\* raises; the call is not all-or-nothing: afterwards the receiver's own
\* INCLUDES is gone and every section of the earlier includes is merged in,
\* only the colliding include has added nothing.  Without a collision every
\* include is merged.
FileKeys(v, m) == UNION {Keys(load_yaml(v.items[i].id)) : i \in 1..m}
BaseNames == get_section_names(last.pre) \ {"INCLUDES"}
C9_Entered == Called("load_includes") /\ last.n > 0
C9_FailFastNotAtomic ==
  C9_Entered =>
    /\ last.exc \in {"none", "ValueError"}
    /\ \A k \in BaseNames : sections(d)[IndexOf(sections(d), k)] \in Range(sections(last.pre))
    /\ \A i \in 1..(last.n - 1) :
         Keys(load_yaml(last.arg.items[i].id)) \cap (BaseNames \cup FileKeys(last.arg, i - 1)) = {}
    /\ IF last.exc = "ValueError"
       THEN /\ Keys(load_yaml(last.arg.items[last.n].id))
                 \cap (BaseNames \cup FileKeys(last.arg, last.n - 1)) # {}
            /\ get_section_names(d) = BaseNames \cup FileKeys(last.arg, last.n - 1)
       ELSE /\ last.n = Len(last.arg.items)
            /\ Keys(load_yaml(last.arg.items[last.n].id))
                 \cap (BaseNames \cup FileKeys(last.arg, last.n - 1)) = {}
            /\ get_section_names(d) = BaseNames \cup FileKeys(last.arg, last.n)
C9_Witness ==
  /\ C9_Entered /\ last.exc = "ValueError" /\ last.n = 2
  /\ d # last.pre /\ Contains(d, "INCLUDES")

\* C10 as stated: the mapping handed to the export codec by dump has the
\* names of both partitions as keys and, without sort_sections, lists them
\* in the order in which they were inserted into the document.
C10_Handed == Succeeded("dump") /\ ~last.flag
C10_DumpInInsertionOrder ==
  C10_Handed =>
    /\ Keys(last.handed) = get_section_names(d)
    /\ KeySeq(last.handed) = d.ord
\* C10 amended: the mapping has the names of both partitions as keys and,
\* without sort_sections, lists first the structured sections in their
\* insertion order and then the legacy sections in their insertion order.
C10_DumpStructuredThenLegacy ==
  C10_Handed =>
    /\ Keys(last.handed) = get_section_names(d)
    /\ Len(last.handed) = Len(d.s) + Len(d.l)
    /\ KeySeq(last.handed) =
         Restrict(d.ord, Keys(d.s)) \o Restrict(d.ord, Keys(d.l))
C10_Witness ==
  /\ C10_Handed /\ Len(d.s) >= 2 /\ Len(d.l) >= 1
  /\ d.ord[1] \in Keys(d.l)

\* C11 as stated: for any document d and any names set in d,
\* dump_with_includes(names, root, split) writes a root file whose INCLUDES
\* list contains the split path, and loading the root file followed by
\* load_includes() yields a document equal (==) to d, also when d already
\* carries an INCLUDES section.
C11_RootListsSplitPath ==
  /\ Has(last.root, "INCLUDES")
  /\ PathItem(SplitPath) \in Range(Lookup(last.root, "INCLUDES").items)
C11_ReloadEqualsOriginal ==
  Called("reload") =>
    C11_RootListsSplitPath /\ last.exc = "none" /\ Eq(last.loaded, last.pre)
\* C11 amended: the half that becomes the root file is the remainder
\* (invert_sections false) or the split-off sections (invert_sections true).
\* When that half carries no INCLUDES section, the root file's INCLUDES list
\* is exactly the split path, and loading the root file followed by
\* load_includes() yields a document equal (==) to d.
C11_RootHalfHasIncludes ==
  Has(last.pre.s, "INCLUDES") /\ (last.flag <=> "INCLUDES" \in Range(last.names))
C11_ReloadEqualsOriginalWithoutOwnIncludes ==
  (Called("reload") /\ ~C11_RootHalfHasIncludes) =>
    /\ C11_RootListsSplitPath
    /\ Lookup(last.root, "INCLUDES").items = <<PathItem(SplitPath)>>
    /\ last.exc = "none" /\ Eq(last.loaded, last.pre)
C11_Witness ==
  /\ Called("reload") /\ ~C11_RootHalfHasIncludes
  /\ Has(last.pre.s, "INCLUDES") /\ Has(last.pre.l, "PARTICLES")
  /\ Len(last.names) = 2 /\ last.splitf # <<>>
  /\ last.exc = "none" /\ Eq(last.loaded, last.pre)

\* C12 as stated: interpret(name, x) with x already interpreted returns x
\* unchanged, so interpret(name, interpret(name, lines)) equals
\* interpret(name, lines) for every legacy name and every valid list of lines.
C12_InterpretIdempotent ==
  Called("reinterpret") => last.exc = "none" /\ last.again = last.ret
\* C12 amended: it is storing that is idempotent. After d[name] = data
\* succeeded, d[name] = d[name] succeeds and leaves the document as it was:
\* __setitem__ stores a dict, or a list with a mapping entry, unchanged and
\* hands only lists without a mapping entry to interpret_legacy_section,
\* which itself has no test for interpreted data.
C12_StoringIsIdempotent ==
  Called("set_again") =>
    /\ last.exc = "none" /\ d = last.pre
    /\ GetItem(d, last.key).ret = last.ret
C12_Witness ==
  /\ Called("set_again") /\ last.key = "PARTICLES" /\ IsRawLines(last.key, last.arg)
  /\ Len(last.arg.items) = 2 /\ HasDictEntry(last.ret)
  /\ last.exc = "none" /\ d = last.pre

C15_SameKindBothWays ==
  Called("inline") => last.rkind = last.wkind /\ last.rkind # "none"
C15_Witness ==
  /\ Called("inline") /\ last.key = "FLUID DOMAIN"
  /\ last.rkind = "domain" /\ last.wkind = "domain" /\ last.arg.items # <<>>

\* C14: reading inlined, calling validate or calling dump leaves the legacy
\* partition as it was stored: every legacy section is still there, and
\* d[name] still returns the interpreted records, not text lines.
C14_Exported == pc = "returned" /\ last.op \in {"inlined", "validate", "dump"}
C14_ExportKeepsInterpreted ==
  C14_Exported =>
    /\ d.l = last.pre.l
    /\ \A i \in 1..Len(last.pre.l) :
         /\ GetItem(d, last.pre.l[i].k).exc = "none"
         /\ GetItem(d, last.pre.l[i].k).ret = last.pre.l[i].v
C14_Witness ==
  /\ C14_Exported /\ last.op = "dump" /\ last.exc = "none"
  /\ Has(d.l, "PARTICLES") /\ HasDictEntry(Lookup(d.l, "PARTICLES"))
  /\ AllTag(Lookup(last.handed, "PARTICLES").items, "line")

====
